---- MODULE Spec2Model ----
(***************************************************************************)
(* Mini Skate: the fixed-timestep motion integrator (Skater.tsx), its      *)
(* frame driver, and the session / progress bookkeeping around it.         *)
(*                                                                         *)
(* Arithmetic.  The program computes in IEEE doubles; the model computes   *)
(* exactly on integer lattices, one per physical quantity:                 *)
(*   horizontal position   1 unit = 1/72000 m      (XZ units per metre)    *)
(*   horizontal velocity   1 unit = 1/1200 m/s     (so x += vx per tick)   *)
(*   height                1 unit = 1/240 m        (YU units per metre)    *)
(*   vertical velocity     1 unit = 1/4 m/s        (so y += vv per tick)   *)
(*   heading               1 unit = 1/600 rad                              *)
(*   time                  1 unit = 1/3 ms         (FIXED_DT = 50 units)   *)
(* Multiplications by a decimal factor (friction, brake, restitution) and  *)
(* the speed clamp round toward zero; sin is Bhaskara's rational           *)
(* approximation (error < 0.002), exact at 0 and at a quarter turn.        *)
(***************************************************************************)
EXTENDS Integers, Sequences, FiniteSets, TLC

VARIABLES
    actor,      \* stateRef.current : SkaterState
    refs,       \* prevJumpRef, rampContactRef, lastTrickRef
    input,      \* inputRef.current : InputState
    pc,         \* position of the frame callback: "idle" between frames, "drain" in the while loop
    sched,      \* accumulatorRef, advanceMsRef, and now - lastUpdateTimeRef (capped)
    game,       \* MiniSkateGame: phase, counters, sessionStars, refs, and the render's closure
    timers,     \* pending setTimeout(setComboCount(0), 100) callbacks: remaining time of each
    progress,   \* ArcadeState.skateProgress
    stars,      \* mounted Star components: id -> collectedRef.current
    diag,       \* observation of the last executed tick (not program state)
    hist,       \* observation counters (not program state)
    mode,       \* which scenario the behaviour belongs to (fixed by Init)
    arcade,     \* ArcadeProvider: reducer state, localStorage item, queued dispatches, effects
    controls    \* useSkateControls: the discrete input state and the touch joystick state

vars == <<actor, refs, input, pc, sched, game, timers, progress, stars, diag, hist, mode,
          arcade, controls>>

----------------------------------------------------------------------------
(* Lattice scales *)

XZ == 72000
YU == 240

Abs(n) == IF n < 0 THEN -n ELSE n
Sign(n) == IF n > 0 THEN 1 ELSE IF n < 0 THEN -1 ELSE 0
TruncDiv(a, b) == IF a >= 0 THEN a \div b ELSE -((-a) \div b)
Clamp(v, lo, hi) == IF v < lo THEN lo ELSE IF v > hi THEN hi ELSE v
ISqrtCeil(n) == CHOOSE r \in 0..700 : r * r >= n /\ (r = 0 \/ (r - 1) * (r - 1) < n)

----------------------------------------------------------------------------
(* PHYSICS, per fixed tick of FIXED_DT = 1/60 s, in lattice units *)

GRAVITY_DT == 1            \* GRAVITY 15 m/s^2 * dt = 0.25 m/s
PUSH_DT == 10              \* PUSH_ACCEL 0.5 m/s^2 * dt = 1/120 m/s
MAX_SPEED == 240           \* 0.2 m/s
TURN_DT == 10              \* TURN_SPEED 1 rad/s * dt = 1/60 rad
AIR_TURN_DT == 3           \* TURN_SPEED * AIR_CONTROL 0.3 * dt = 1/200 rad
FRICTION == 95             \* 0.95, in hundredths
BRAKE_FRICTION == 85       \* 0.85, in hundredths
JUMP_FORCE == 20           \* 5 m/s
RAMP_LAUNCH == 26          \* not in the PHYSICS table under src/: 6.5 m/s
MAX_VERTICAL_VEL == 80     \* not in the PHYSICS table under src/: 20 m/s
EPS_SPEED_SQ == 576        \* lengthSq() < 0.0004  <=>  |v| < 0.02 m/s = 24 units
RESTITUTION == 3           \* velocity component *= -0.3, in tenths
BOUND_SIZE == 19 * XZ      \* PARK_SIZE.boundSize
PAD == 21600               \* 0.3 m footprint padding of obstacles
TOP_ABOVE == 24            \* y <= sy + 0.1
TOP_BELOW == 48            \* y >= sy - 0.2
RAMP_TOL == 12             \* y <= rampHeight + 0.05
NTRICKS == 4               \* TRICKS.length

\* verticalVelocity <= 0.2 m/s, i.e. 0.8 vertical-velocity units
SlowRise(vv) == 10 * vv <= 8

----------------------------------------------------------------------------
(* Level geometry *)

Ramp(id, px, pz, sx, sz, mh, dir) ==
    [id |-> id, x |-> px, z |-> pz, sx |-> sx, sz |-> sz, maxHeight |-> mh, direction |-> dir]

RAMP_DATA == <<
    Ramp("hp1",    8 * XZ, -14 * XZ, 4 * XZ, 2 * XZ, 2 * YU, "north"),
    Ramp("hp2",   14 * XZ,  -6 * XZ, 2 * XZ, 4 * XZ, 2 * YU, "east"),
    Ramp("hp3",  -10 * XZ, -14 * XZ, 4 * XZ, 2 * XZ, 2 * YU, "south"),
    Ramp("hp4",  -16 * XZ,  -8 * XZ, 2 * XZ, 4 * XZ, 2 * YU, "west"),
    Ramp("bowl1", 14 * XZ, -14 * XZ, 2 * XZ, 2 * XZ, (3 * YU) \div 2, "south"),
    Ramp("bowl2", 12 * XZ, -16 * XZ, 2 * XZ, XZ \div 2, (3 * YU) \div 2, "north"),
    Ramp("bowl3", 16 * XZ, -12 * XZ, XZ \div 2, 2 * XZ, (3 * YU) \div 2, "west") >>

Obstacle(id, px, pz, sx, sy, sz) ==
    [id |-> id, x |-> px, z |-> pz, sx |-> sx, sy |-> sy, sz |-> sz]

OBSTACLE_DATA == <<
    Obstacle("o1",  -10 * XZ,  16 * XZ, XZ,     YU \div 2,        XZ),
    Obstacle("o2",   -8 * XZ,  16 * XZ, XZ,     YU \div 2,        XZ),
    Obstacle("o3",  -12 * XZ,   8 * XZ, XZ,     YU \div 2,        XZ),
    Obstacle("o4",   10 * XZ,   4 * XZ, 2 * XZ, YU \div 2,        XZ),
    Obstacle("o5",   14 * XZ,   4 * XZ, XZ,     YU \div 2,        XZ),
    Obstacle("o6",    8 * XZ,  10 * XZ, 2 * XZ, (6 * YU) \div 10, 2 * XZ),
    Obstacle("o7",   16 * XZ,  16 * XZ, 2 * XZ, (6 * YU) \div 10, 2 * XZ),
    Obstacle("o8",   10 * XZ, -16 * XZ, XZ,     YU \div 2,        XZ),
    Obstacle("o9",  -12 * XZ, -12 * XZ, 2 * XZ, YU \div 2,        XZ),
    Obstacle("o10",  -8 * XZ, -16 * XZ, XZ,     YU \div 2,        XZ),
    Obstacle("o11", -16 * XZ, -16 * XZ, 2 * XZ, (6 * YU) \div 10, 2 * XZ),
    Obstacle("o12",   0,        0,      XZ,     YU \div 2,        XZ),
    Obstacle("o13",  -3 * XZ,   3 * XZ, 2 * XZ, YU \div 2,        XZ),
    Obstacle("o14",   3 * XZ,  -3 * XZ, 2 * XZ, YU \div 2,        XZ) >>

InRampFootprint(r, x, z) ==
    /\ x >= r.x - r.sx \div 2 /\ x <= r.x + r.sx \div 2
    /\ z >= r.z - r.sz \div 2 /\ z <= r.z + r.sz \div 2

InPaddedFootprint(o, x, z) ==
    /\ x >= o.x - o.sx \div 2 - PAD /\ x <= o.x + o.sx \div 2 + PAD
    /\ z >= o.z - o.sz \div 2 - PAD /\ z <= o.z + o.sz \div 2 + PAD

----------------------------------------------------------------------------
(* Trigonometry on the lattices *)

PI_U == 1885       \* pi in heading units (1/600 rad)
PROG == 120        \* ramp progress is resolved to 1/120

\* sin of a heading in [0, PI_U], in thousandths (Bhaskara I)
SinHalf(a) ==
    LET t == (a * (PI_U - a)) \div 100
        d == (5 * PI_U * PI_U) \div 100 - 4 * t
    IN (16000 * t) \div d

\* Math.sin(rotation), in thousandths
Sin1000(rot) ==
    LET a == rot % (2 * PI_U)
    IN IF a <= PI_U THEN SinHalf(a) ELSE -SinHalf(a - PI_U)

\* Math.cos(rotation), in thousandths
Cos1000(rot) == Sin1000(rot + 942)

\* Math.sin(progress * PI / 2) * maxHeight, progress = num / den in [0, 1]
RampHeight(num, den, maxHeight) ==
    LET p == (num * PROG) \div den
        t == p * (2 * PROG - p)
    IN (maxHeight * 4 * t) \div (5 * PROG * PROG - t)

RampProgressNum(r, x, z) ==
    CASE r.direction = "north" -> z - (r.z - r.sz \div 2)
      [] r.direction = "south" -> r.sz - (z - (r.z - r.sz \div 2))
      [] r.direction = "east"  -> x - (r.x - r.sx \div 2)
      [] r.direction = "west"  -> r.sx - (x - (r.x - r.sx \div 2))

RampProgressDen(r) == IF r.direction \in {"north", "south"} THEN r.sz ELSE r.sx

----------------------------------------------------------------------------
(* stepPhysics.  A tick works on a record w: the fields of SkaterState     *)
(* (x, y, z, vx, vz, rot, vv, grounded, trick, air), lastTrickRef, the      *)
(* locals onRamp / onSurface, and observations of which branch fired.       *)
(* velocity.y is 0 throughout the program and is not represented;           *)
(* isGrinding is never assigned and stays false.                            *)

NoInput == [forward |-> FALSE, backward |-> FALSE, turnLeft |-> FALSE, turnRight |-> FALSE,
            jump |-> FALSE, trick1 |-> FALSE, trick2 |-> FALSE, trick3 |-> FALSE, trick4 |-> FALSE]

StartTick(s, r) ==
    [x |-> s.x, y |-> s.y, z |-> s.z, vx |-> s.vx, vz |-> s.vz, rot |-> s.rot,
     vv |-> s.vv, grounded |-> s.grounded, trick |-> s.trick, air |-> s.air,
     lastTrick |-> r.lastTrick, wasGrounded |-> s.grounded,
     onRamp |-> FALSE, onSurface |-> FALSE,
     launched |-> FALSE, trickCb |-> 0, rampHit |-> "none", topHit |-> "none",
     sideHit |-> "none", sideAxis |-> "none", floorSnap |-> FALSE,
     ivx |-> 0, ivz |-> 0, ivv |-> 0, ix |-> 0, iy |-> 0, iz |-> 0]

\* Gravity that pulls on nothing
GravityStageOff(w) ==
    [w EXCEPT !.vv = IF ~w.grounded THEN Clamp(w.vv, -MAX_VERTICAL_VEL, MAX_VERTICAL_VEL)
                     ELSE 0]

\* Gravity that also pulls on a grounded actor
GravityStageAlways(w) ==
    [w EXCEPT !.vv = Clamp(w.vv - GRAVITY_DT, -MAX_VERTICAL_VEL, MAX_VERTICAL_VEL)]

\* Skater.tsx 197-207
GravityStage(w) ==
    LET v == IF ~w.grounded THEN w.vv - GRAVITY_DT ELSE 0
    IN [w EXCEPT !.vv = Clamp(v, -MAX_VERTICAL_VEL, MAX_VERTICAL_VEL)]

\* velocity.multiplyScalar(f / 100)
Scale(w, f) == [w EXCEPT !.vx = TruncDiv(w.vx * f, 100), !.vz = TruncDiv(w.vz * f, 100)]

\* Skater.tsx 210-213
PushStage(w, in) ==
    IF in.forward
    THEN [w EXCEPT !.vx = w.vx + TruncDiv(PUSH_DT * Sin1000(w.rot), 1000),
                   !.vz = w.vz + TruncDiv(PUSH_DT * Cos1000(w.rot), 1000)]
    ELSE w

\* Skater.tsx 219-224
TurnStage(w, in, step) ==
    LET a == IF in.turnLeft THEN w.rot + step ELSE w.rot
        b == IF in.turnRight THEN a - step ELSE a
    IN [w EXCEPT !.rot = b]

\* A jump that ignores the ramp-contact memory
JumpStageFlat(w, in, r) ==
    IF in.jump /\ ~r.prevJump
    THEN [w EXCEPT !.vv = JUMP_FORCE, !.grounded = FALSE, !.launched = TRUE]
    ELSE w

\* A jump whose launch constant is divided by dt (60 ticks per second)
JumpStagePerSecond(w, in, r) ==
    IF in.jump /\ ~r.prevJump
    THEN [w EXCEPT !.vv = 60 * (IF r.rampContact THEN RAMP_LAUNCH ELSE JUMP_FORCE),
                   !.grounded = FALSE, !.launched = TRUE]
    ELSE w

\* Skater.tsx 226-233
JumpStage(w, in, r) ==
    IF in.jump /\ ~r.prevJump
    THEN [w EXCEPT !.vv = IF r.rampContact THEN RAMP_LAUNCH ELSE JUMP_FORCE,
                   !.grounded = FALSE, !.launched = TRUE]
    ELSE w

\* Skater.tsx 246
TrickIndex(in) ==
    IF in.trick1 THEN 0 ELSE IF in.trick2 THEN 1 ELSE IF in.trick3 THEN 2
    ELSE IF in.trick4 THEN 3 ELSE -1

\* A trick stage that registers whenever a trick flag is pressed
TrickStageEveryTick(w, in) ==
    LET i == TrickIndex(in)
    IN IF i >= 0 /\ i < NTRICKS
       THEN [w EXCEPT !.trick = i + 1, !.lastTrick = i, !.trickCb = i + 1]
       ELSE w

\* Skater.tsx 246-253; trick is the 1-based index into TRICKS, 0 for null
TrickStage(w, in) ==
    LET i == TrickIndex(in)
    IN IF i >= 0 /\ i < NTRICKS /\ i # w.lastTrick
       THEN [w EXCEPT !.trick = i + 1, !.lastTrick = i, !.trickCb = i + 1]
       ELSE w

\* Skater.tsx 209-254
InputStage(w, in, r) ==
    IF w.grounded
    THEN LET a == PushStage(w, in)
             b == IF in.backward THEN Scale(a, BRAKE_FRICTION) ELSE a
             c == TurnStage(b, in, TURN_DT)
             d == JumpStage(c, in, r)
         IN IF ~in.backward THEN Scale(d, FRICTION) ELSE d
    ELSE TrickStage(TurnStage(w, in, AIR_TURN_DT), in)

\* Skater.tsx 256-261
SpeedStage(w) ==
    LET sq == w.vx * w.vx + w.vz * w.vz
        len == ISqrtCeil(sq)
        a == IF sq > MAX_SPEED * MAX_SPEED
             THEN [w EXCEPT !.vx = TruncDiv(w.vx * MAX_SPEED, len),
                            !.vz = TruncDiv(w.vz * MAX_SPEED, len)]
             ELSE w
    IN IF a.vx * a.vx + a.vz * a.vz < EPS_SPEED_SQ
       THEN [a EXCEPT !.vx = 0, !.vz = 0]
       ELSE a

\* Skater.tsx 263-264
IntegrateStage(w) ==
    [w EXCEPT !.x = w.x + w.vx, !.z = w.z + w.vz, !.y = w.y + w.vv,
              !.ivx = w.vx, !.ivz = w.vz, !.ivv = w.vv,
              !.ix = w.x + w.vx, !.iy = w.y + w.vv, !.iz = w.z + w.vz]

\* Skater.tsx 274-302, one ramp
RampContact(w, ramp) ==
    IF InRampFootprint(ramp, w.x, w.z)
    THEN LET h == RampHeight(RampProgressNum(ramp, w.x, w.z), RampProgressDen(ramp),
                             ramp.maxHeight)
         IN IF w.y <= h + RAMP_TOL /\ SlowRise(w.vv)
            THEN [w EXCEPT !.y = h, !.vv = 0, !.grounded = TRUE, !.onRamp = TRUE,
                           !.rampHit = ramp.id]
            ELSE w
    ELSE w

RECURSIVE RampLoop(_, _)
\* Skater.tsx 267-303
RampLoop(w, i) ==
    IF i > Len(RAMP_DATA) THEN w ELSE RampLoop(RampContact(w, RAMP_DATA[i]), i + 1)

\* A bounce that inverts without dampening by tenths
BounceUndamped(v) == -(v * RESTITUTION)

\* velocity component *= -0.3
Bounce(v) == -TruncDiv(v * RESTITUTION, 10)

\* A top snap that keeps the vertical velocity
TopSnapKeepsVelocity(w, o) ==
    [w EXCEPT !.y = o.sy, !.grounded = TRUE, !.trick = 0,
              !.onSurface = TRUE, !.topHit = o.id]

\* Skater.tsx 317-322
TopSnap(w, o) ==
    [w EXCEPT !.y = o.sy, !.vv = 0, !.grounded = TRUE, !.trick = 0,
              !.onSurface = TRUE, !.topHit = o.id]

\* A side push along the axis of the smaller centre distance
SidePushMinorAxis(w, o) ==
    LET dx == w.x - o.x
        dz == w.z - o.z
    IN IF Abs(dx) < Abs(dz)
       THEN [w EXCEPT !.x = o.x + Sign(dx) * (o.sx \div 2 + PAD), !.vx = Bounce(w.vx),
                      !.sideHit = o.id, !.sideAxis = "x"]
       ELSE [w EXCEPT !.z = o.z + Sign(dz) * (o.sz \div 2 + PAD), !.vz = Bounce(w.vz),
                      !.sideHit = o.id, !.sideAxis = "z"]

\* A side push that inverts and dampens both velocity components
SidePushBothComponents(w, o) ==
    LET dx == w.x - o.x
        dz == w.z - o.z
    IN IF Abs(dx) > Abs(dz)
       THEN [w EXCEPT !.x = o.x + Sign(dx) * (o.sx \div 2 + PAD), !.vx = Bounce(w.vx),
                      !.vz = Bounce(w.vz), !.sideHit = o.id, !.sideAxis = "x"]
       ELSE [w EXCEPT !.z = o.z + Sign(dz) * (o.sz \div 2 + PAD), !.vz = Bounce(w.vz),
                      !.vx = Bounce(w.vx), !.sideHit = o.id, !.sideAxis = "z"]

\* Skater.tsx 323-334
SidePush(w, o) ==
    LET dx == w.x - o.x
        dz == w.z - o.z
    IN IF Abs(dx) > Abs(dz)
       THEN [w EXCEPT !.x = o.x + Sign(dx) * (o.sx \div 2 + PAD), !.vx = Bounce(w.vx),
                      !.sideHit = o.id, !.sideAxis = "x"]
       ELSE [w EXCEPT !.z = o.z + Sign(dz) * (o.sz \div 2 + PAD), !.vz = Bounce(w.vz),
                      !.sideHit = o.id, !.sideAxis = "z"]

\* Skater.tsx 313-335, one obstacle
ObstacleContact(w, o) ==
    IF InPaddedFootprint(o, w.x, w.z)
    THEN IF w.y <= o.sy + TOP_ABOVE /\ w.y >= o.sy - TOP_BELOW
         THEN TopSnap(w, o)
         ELSE IF w.y < o.sy THEN SidePush(w, o) ELSE w
    ELSE w

RECURSIVE ObstacleLoop(_, _)
\* Skater.tsx 306-336
ObstacleLoop(w, i) ==
    IF i > Len(OBSTACLE_DATA) THEN w
    ELSE ObstacleLoop(ObstacleContact(w, OBSTACLE_DATA[i]), i + 1)

\* A level without the floor fallback
FloorStageOff(w) == w

\* Skater.tsx 338-344
FloorStage(w) ==
    IF ~w.onSurface /\ w.y <= 0 /\ w.vv < 0
    THEN [w EXCEPT !.y = 0, !.vv = 0, !.grounded = TRUE, !.floorSnap = TRUE]
    ELSE w

\* A landing that clears the trick but keeps the trick-edge memory
LandingStageKeepsLast(w) ==
    IF w.grounded /\ ~w.wasGrounded THEN [w EXCEPT !.trick = 0] ELSE w

\* Skater.tsx 346-349
LandingStage(w) ==
    IF w.grounded /\ ~w.wasGrounded
    THEN [w EXCEPT !.trick = 0, !.lastTrick = -1]
    ELSE w

\* A clamp of z only
BoundStageZOnly(w) == [w EXCEPT !.z = Clamp(w.z, -BOUND_SIZE, BOUND_SIZE)]

\* Skater.tsx 351-353
BoundStage(w) ==
    [w EXCEPT !.x = Clamp(w.x, -BOUND_SIZE, BOUND_SIZE),
              !.z = Clamp(w.z, -BOUND_SIZE, BOUND_SIZE)]

\* Skater.tsx 372-376; airborneTime counted in ticks of FIXED_DT
AirTimeStage(w) == [w EXCEPT !.air = IF w.grounded THEN 0 ELSE w.air + 1]

\* Skater.tsx 191-379
StepPhysics(s, in, r) ==
    LET a == InputStage(GravityStage(StartTick(s, r)), in, r)
        b == RampLoop(IntegrateStage(SpeedStage(a)), 1)
        c == ObstacleLoop([b EXCEPT !.onSurface = b.onRamp], 1)
    IN AirTimeStage(BoundStage(LandingStage(FloorStage(c))))

ActorOf(w) ==
    [x |-> w.x, y |-> w.y, z |-> w.z, vx |-> w.vx, vz |-> w.vz, rot |-> w.rot,
     vv |-> w.vv, grounded |-> w.grounded, trick |-> w.trick, air |-> w.air]

\* Skater.tsx 44-53
SpawnState ==
    [x |-> 0, y |-> 0, z |-> 0, vx |-> 0, vz |-> 0, rot |-> 0,
     vv |-> 0, grounded |-> TRUE, trick |-> 0, air |-> 0]

\* Skater.tsx 64-68
InitRefs == [prevJump |-> FALSE, rampContact |-> FALSE, lastTrick |-> -1]

----------------------------------------------------------------------------
(* Frame driver and session bookkeeping.  Time is counted in 1/3 ms.       *)

FIXED_DT == 50             \* 1/60 s
MAX_ACCUM == 300           \* 0.1 s
UPDATE_INTERVAL == 150     \* 50 ms between onStateUpdate calls
COMBO_RESET_DELAY == 300   \* setTimeout(..., 100)

Min(a, b) == IF a < b THEN a ELSE b
Max(a, b) == IF a > b THEN a ELSE b
Range(q) == {q[i] : i \in 1..Len(q)}

\* STARS: id -> points (skateConstants.ts 418-458)
StarPoints(id) ==
    IF id \in 1..10 \/ id = 29 THEN 10
    ELSE IF id \in 11..19 \/ id \in {22, 24} THEN 25
    ELSE IF id = 30 THEN 100
    ELSE 50

\* The stars of the model: the first NumStars of this selection of STARS
StarSelection == <<1, 7, 30, 10, 29>>
NumStars == 3
StarIds == {StarSelection[i] : i \in 1..NumStars}

\* ArcadeContext.tsx 76-84 (the fields the skate game writes)
InitSkateProgress ==
    [totalTricks |-> 0, bestCombo |-> 0, sessionsPlayed |-> 0,
     collectedStars |-> <<>>, totalStarPoints |-> 0, achievements |-> <<>>]

\* The values of one render that the callbacks of MiniSkateGame close over
ClosureOf(g, p) ==
    [sessionStars |-> g.sessionStars, collectedStars |-> p.collectedStars,
     totalStarPoints |-> p.totalStarPoints, sessionsPlayed |-> p.sessionsPlayed]

\* MiniSkateGame 210-235, after the first render with skateProgress p
InitGame(ph, p) ==
    LET g == [phase |-> ph, trickCount |-> 0, comboCount |-> 0, sessionStars |-> <<>>,
              prevGrounded |-> TRUE, comboCountRef |-> 0,
              trickCountRef |-> p.totalTricks, bestComboRef |-> p.bestCombo,
              dirty |-> FALSE]
    IN g @@ [closure |-> ClosureOf(g, p)]

\* Skater.tsx 72-77
InitSched == [accumulator |-> 0, advanceMs |-> 0, sinceUpdate |-> 0]

\* arcadeReducer UPDATE_SKATE_PROGRESS with payload {totalTricks, bestCombo}
\* MiniSkateGame 251-266
HandleTrickPerformed(g, p) ==
    [g |-> [g EXCEPT !.trickCount = @ + 1, !.comboCount = @ + 1, !.dirty = TRUE],
     p |-> [p EXCEPT !.totalTricks = g.trickCountRef + 1,
                     !.bestCombo = Max(g.bestComboRef, g.comboCountRef + 1)]]

\* A collection handler without the already-collected test
HandleStarCollectedUnguarded(g, p, id) ==
    [g |-> [g EXCEPT !.sessionStars = Append(@, id), !.dirty = TRUE],
     p |-> [p EXCEPT !.collectedStars = Append(g.closure.collectedStars, id),
                     !.totalStarPoints = g.closure.totalStarPoints + StarPoints(id)]]

\* MiniSkateGame 287-310
HandleStarCollected(g, p, id) ==
    IF id \in Range(g.closure.sessionStars) \/ id \in Range(g.closure.collectedStars)
    THEN [g |-> g, p |-> p]
    ELSE [g |-> [g EXCEPT !.sessionStars = Append(@, id), !.dirty = TRUE],
          p |-> [p EXCEPT !.collectedStars = Append(g.closure.collectedStars, id),
                          !.totalStarPoints = g.closure.totalStarPoints + StarPoints(id)]]

\* Stars 486-489 with collectedIds = allCollectedStars of the render (MiniSkateGame 226-229)
Visible(g, p, id) == id \notin Range(p.collectedStars) \cup Range(g.sessionStars)

NoStars == [id \in StarIds |-> "unmounted"]

----------------------------------------------------------------------------
(* ArcadeProvider: reducer state and its localStorage item.  An object is   *)
(* a function from field names to values; a saved object may lack fields.   *)
(* Of each sub-object the model keeps the fields named here; the others     *)
(* are merged by the same spread expressions.  String values are numbered:  *)
(* activeGame 0 'city-builder', 2 'mini-skate'; characterId and playerName  *)
(* 0 the default; favoriteCharacter -1 null, 0 'boy'.                       *)

\* ArcadeContext.tsx 55-84
initialPlayerProfile == [characterId |-> 0, playerName |-> 0]
initialMathProgress == [currentLevel |-> 1]
initialCityProgress == [daysPlayed |-> 0]
initialSkateProgress == [totalTricks |-> 0, favoriteCharacter |-> -1]

\* ArcadeContext.tsx 86-93
initialState ==
    [top |-> [version |-> 1, activeGame |-> 0],
     playerProfile |-> initialPlayerProfile,
     mathProgress |-> initialMathProgress,
     cityProgress |-> initialCityProgress,
     skateProgress |-> initialSkateProgress]

\* { ...a, ...b } : the fields of b, and those of a that b lacks
Spread(a, b) ==
    [k \in DOMAIN a \cup DOMAIN b |-> IF k \in DOMAIN b THEN b[k] ELSE a[k]]

\* parsed.<sub-object>: a saved object holds a sub-object as <<o>>, or lacks it: <<>>
Sub(o) == IF o = <<>> THEN <<>> ELSE o[1]

\* A merge that spreads the top level only
MergeTopLevel(parsed) ==
    [top |-> Spread(initialState.top, parsed.top),
     playerProfile |-> IF parsed.playerProfile = <<>> THEN initialPlayerProfile
                       ELSE Sub(parsed.playerProfile),
     mathProgress |-> IF parsed.mathProgress = <<>> THEN initialMathProgress
                      ELSE Sub(parsed.mathProgress),
     cityProgress |-> IF parsed.cityProgress = <<>> THEN initialCityProgress
                      ELSE Sub(parsed.cityProgress),
     skateProgress |-> IF parsed.skateProgress = <<>> THEN initialSkateProgress
                       ELSE Sub(parsed.skateProgress)]

\* ArcadeContext.tsx 213-220: the payload of LOAD_STATE
MergeSaved(parsed) ==
    [top |-> Spread(initialState.top, parsed.top),
     playerProfile |-> Spread(initialPlayerProfile, Sub(parsed.playerProfile)),
     mathProgress |-> Spread(initialMathProgress, Sub(parsed.mathProgress)),
     cityProgress |-> Spread(initialCityProgress, Sub(parsed.cityProgress)),
     skateProgress |-> Spread(initialSkateProgress, Sub(parsed.skateProgress))]

\* JSON.stringify(state): every field of the state is a number, a string or
\* null, which JSON writes as it is
Stringify(st) ==
    [kind |-> "json",
     obj |-> [top |-> st.top, playerProfile |-> <<st.playerProfile>>,
              mathProgress |-> <<st.mathProgress>>, cityProgress |-> <<st.cityProgress>>,
              skateProgress |-> <<st.skateProgress>>]]

EmptyObject ==
    [top |-> <<>>, playerProfile |-> <<>>, mathProgress |-> <<>>, cityProgress |-> <<>>,
     skateProgress |-> <<>>]

\* localStorage items: none, text that is no JSON, the JSON text null, a JSON object
NoItem == [kind |-> "none", obj |-> EmptyObject]
CorruptItem == [kind |-> "corrupt", obj |-> EmptyObject]
NullItem == [kind |-> "null", obj |-> EmptyObject]

\* A load effect whose exceptions escape
LoadEffectUncaught(item, readThrows) ==
    IF readThrows \/ item.kind \in {"corrupt", "null"}
    THEN [queue |-> <<>>, failed |-> TRUE, crashed |-> TRUE]
    ELSE IF item.kind = "none"
    THEN [queue |-> <<>>, failed |-> FALSE, crashed |-> FALSE]
    ELSE [queue |-> <<MergeSaved(item.obj)>>, failed |-> FALSE, crashed |-> FALSE]

\* ArcadeContext.tsx 205-226: what the load effect dispatches.  getItem may
\* throw, JSON.parse throws on text that is no JSON, and reading a property
\* of the parsed null throws; the catch swallows all three.
LoadEffectOf(item, readThrows) ==
    IF readThrows \/ item.kind \in {"corrupt", "null"}
    THEN [queue |-> <<>>, failed |-> TRUE, crashed |-> FALSE]
    ELSE IF item.kind = "none"
    THEN [queue |-> <<>>, failed |-> FALSE, crashed |-> FALSE]
    ELSE [queue |-> <<MergeSaved(item.obj)>>, failed |-> FALSE, crashed |-> FALSE]

\* arcadeReducer, ArcadeContext.tsx 107-179: SET_ACTIVE_GAME, UPDATE_SKATE_PROGRESS
\* and LOAD_STATE, the action as [type, payload]
arcadeReducer(st, action) ==
    CASE action.type = "SET_ACTIVE_GAME" ->
            [st EXCEPT !.top = Spread(st.top, [activeGame |-> action.payload])]
      [] action.type = "UPDATE_SKATE_PROGRESS" ->
            [st EXCEPT !.skateProgress = Spread(st.skateProgress, action.payload)]
      [] action.type = "LOAD_STATE" -> action.payload
      [] OTHER -> st

NoAction == [type |-> "none", payload |-> 0]
NoOp == [kind |-> "none", before |-> initialState, action |-> NoAction, ok |-> TRUE]

\* The provider before its effects have run, with item in localStorage
MountArcade(item, readThrows) ==
    [stage |-> "mount", state |-> initialState, storage |-> item, saved |-> item,
     queue |-> <<>>, dirty |-> FALSE, readThrows |-> readThrows,
     loadFailed |-> FALSE, crashed |-> FALSE, writeFailures |-> 0, updates |-> 0,
     reloads |-> 0, prev |-> <<>>, op |-> NoOp]

\* The provider of a new profile after startup
ReadyArcade ==
    [MountArcade(NoItem, FALSE) EXCEPT !.stage = "ready", !.storage = Stringify(initialState)]

\* ArcadeContext.tsx 229-235: setItem may throw; the catch swallows it
SaveEffectOf(a, ok) ==
    [a EXCEPT !.storage = IF ok THEN Stringify(a.state) ELSE @,
              !.writeFailures = IF ok THEN @ ELSE @ + 1]

----------------------------------------------------------------------------
(* useSkateControls *)

DEADZONE == 30        \* 0.3, joystick axes in hundredths

\* useSkateControls.ts 25-41
\* (pressed is keysPressed, line 46; fingers is the set of touch buttons a
\* finger rests on, which the hook does not record)
InitControls ==
    [keys |-> NoInput,
     touch |-> [joystickX |-> 0, joystickY |-> 0, isJoystickActive |-> FALSE],
     pressed |-> {},
     fingers |-> {}]

\* A combination whose deadzone excludes its border
CombinedInputInclusive(keys, touch) ==
    [keys EXCEPT !.forward = @ \/ touch.joystickY <= -DEADZONE,
                 !.backward = @ \/ touch.joystickY >= DEADZONE,
                 !.turnLeft = @ \/ touch.joystickX <= -DEADZONE,
                 !.turnRight = @ \/ touch.joystickX >= DEADZONE]

\* useSkateControls.ts 142-152
CombinedInput(keys, touch) ==
    [forward |-> keys.forward \/ touch.joystickY < -DEADZONE,
     backward |-> keys.backward \/ touch.joystickY > DEADZONE,
     turnLeft |-> keys.turnLeft \/ touch.joystickX < -DEADZONE,
     turnRight |-> keys.turnRight \/ touch.joystickX > DEADZONE,
     jump |-> keys.jump,
     trick1 |-> keys.trick1,
     trick2 |-> keys.trick2,
     trick3 |-> keys.trick3,
     trick4 |-> keys.trick4]

----------------------------------------------------------------------------
(* Scenarios: the bounded inputs of each specification *)

MaxTicks == 3         \* ticks per behaviour when every input may change between frames
HoldTicks == 100      \* ticks over which jump is held
SessionTicks == 10    \* ticks per behaviour of the landing / combo scenario
MaxSessions == 2      \* handleStart calls per behaviour
MaxCalls == 4         \* direct calls of the collection handler per behaviour
PushTicks == 600      \* ticks over which forward is held toward the park edge
FrameTicks == 12      \* ticks per behaviour of the frame-driver scenario
RateTicks == 12       \* ticks per behaviour of the frame-schedule scenario
PauseTicks == 4       \* ticks per behaviour of the pause scenario
AdvanceTicks == 14    \* ticks per behaviour of the advanceTime scenario
MaxAdvances == 2      \* calls of window.advanceTime per behaviour
AirTicks == 60        \* ticks per behaviour of the airborne scenario
BookTicks == 4        \* ticks per behaviour of the bookkeeping scenario
TrickTicks == 5       \* ticks per behaviour of the trick scenario
MaxUpdates == 1       \* reducer actions dispatched per page load
MaxReloads == 1       \* page reloads per behaviour

TickLimit ==
    CASE mode = "physics" -> MaxTicks
      [] mode = "hold"    -> HoldTicks
      [] mode = "push"    -> PushTicks
      [] mode = "session" -> SessionTicks
      [] mode = "frames"  -> FrameTicks
      [] mode = "rate"    -> RateTicks
      [] mode = "pause"   -> PauseTicks
      [] mode = "tricks"  -> TrickTicks
      [] mode = "advance" -> AdvanceTicks
      [] mode = "air"     -> AirTicks
      [] mode = "book"    -> BookTicks
      [] OTHER            -> 0

In(fw, bw, tl, jp, t1, t2) ==
    [NoInput EXCEPT !.forward = fw, !.backward = bw, !.turnLeft = tl, !.jump = jp,
                    !.trick1 = t1, !.trick2 = t2]

Inputs ==
    CASE mode = "physics" ->
            {NoInput,
             In(TRUE, FALSE, FALSE, FALSE, FALSE, FALSE),
             In(TRUE, TRUE, FALSE, FALSE, FALSE, FALSE),
             In(TRUE, FALSE, TRUE, FALSE, FALSE, FALSE),
             In(FALSE, FALSE, FALSE, TRUE, FALSE, FALSE),
             In(FALSE, FALSE, FALSE, FALSE, TRUE, TRUE),
             In(FALSE, FALSE, FALSE, FALSE, FALSE, TRUE),
             [NoInput EXCEPT !.turnRight = TRUE, !.trick4 = TRUE]}
      [] mode = "hold" -> {}
      [] mode = "push" -> {In(TRUE, FALSE, FALSE, FALSE, FALSE, FALSE)}
      [] mode = "session" ->
            {NoInput,
             In(FALSE, FALSE, FALSE, TRUE, FALSE, FALSE),
             In(FALSE, FALSE, FALSE, TRUE, TRUE, FALSE)}
      [] mode = "frames" -> {NoInput, In(TRUE, FALSE, FALSE, FALSE, FALSE, FALSE)}
      [] mode = "pause" ->
            {NoInput, In(TRUE, FALSE, FALSE, FALSE, FALSE, FALSE),
             In(FALSE, FALSE, FALSE, TRUE, FALSE, FALSE)}
      [] mode = "air" -> {NoInput, [NoInput EXCEPT !.turnRight = TRUE, !.trick4 = TRUE]}
      [] mode = "book" ->
            {NoInput, [NoInput EXCEPT !.trick1 = TRUE], [NoInput EXCEPT !.trick2 = TRUE]}
      [] mode = "tricks" ->
            {NoInput,
             In(FALSE, FALSE, FALSE, TRUE, FALSE, FALSE),
             In(FALSE, FALSE, FALSE, FALSE, TRUE, TRUE),
             In(FALSE, FALSE, FALSE, FALSE, FALSE, TRUE),
             [NoInput EXCEPT !.trick3 = TRUE, !.trick4 = TRUE]}
      [] OTHER -> {}

\* Frame deltas (elapsed time between display frames), in 1/3 ms
Deltas ==
    CASE mode = "physics" -> {50, 100}
      [] mode = "hold"    -> {25, 50, 100}
      [] mode = "push"    -> {50, 100}
      [] mode = "session" -> {50, 150}
      [] mode = "frames"  -> {0, 20, 50, 130, 400}
      [] mode = "rate"    -> {25, 50, 100, 290}
      [] mode = "pause"   -> {50, 100}
      [] mode = "tricks"  -> {50, 100}
      [] mode = "advance" -> {50}
      [] mode = "air"     -> {50}
      [] mode = "book"    -> {50, 100}
      [] OTHER            -> {}

----------------------------------------------------------------------------
(* Actions *)

NoDiag == [w |-> StartTick(SpawnState, InitRefs), pre |-> SpawnState, in |-> NoInput,
           prevJump |-> FALSE, rampContact |-> FALSE, valid |-> FALSE]

InitHist == [ticks |-> 0, launches |-> 0, held |-> 0, airTricks |-> 0, registered |-> 0,
             collected |-> {}, sessions |-> 0, calls |-> 0,
             frame |-> [delta |-> 0, before |-> 0, ticks |-> 0, injected |-> 0,
                        called |-> 0],
             advances |-> 0, injectSum |-> 0,
             elapsed |-> 0, ref |-> [a |-> SpawnState, r |-> InitRefs],
             regs |-> <<>>, regsBefore |-> <<>>,
             call |-> [id |-> 0, had |-> FALSE, inSession |-> FALSE, seen |-> FALSE,
                       before |-> InitSkateProgress]]

Playing == game.phase # "menu"

\* The input cell read by the frame callback changes between frames
\* (useSkateControls setInput -> render -> Skater.tsx 58-60)
SetInput ==
    /\ pc = "idle" /\ Playing
    /\ \E in \in Inputs : in # input /\ input' = in
    /\ UNCHANGED <<actor, refs, pc, sched, game, timers, progress, stars, diag, hist, mode, arcade, controls>>

\* An accumulator that keeps the whole backlog
AccumulateUncapped(acc, stepDelta) == acc + stepDelta

\* Skater.tsx 390
Accumulate(acc, stepDelta) == Min(acc + stepDelta, MAX_ACCUM)

\* Number of ticks the while loop of a frame with this delta will run
TicksOfFrame(delta) ==
    Accumulate(sched.accumulator, IF sched.advanceMs > 0 THEN sched.advanceMs ELSE delta)
        \div FIXED_DT

\* Skater.tsx 382-390: a display frame begins after delta of wall-clock time
FrameBegin ==
    /\ pc = "idle" /\ Playing
    /\ \A i \in 1..Len(timers) : timers[i] > 0
    /\ \E delta \in Deltas :
        /\ hist.ticks + TicksOfFrame(delta) <= TickLimit
        /\ LET stepDelta == IF sched.advanceMs > 0 THEN sched.advanceMs ELSE delta
           IN /\ sched' = [accumulator |-> Accumulate(sched.accumulator, stepDelta),
                            advanceMs |-> 0,
                            sinceUpdate |-> Min(sched.sinceUpdate + delta, UPDATE_INTERVAL)]
              /\ hist' = [hist EXCEPT
                     !.frame = [delta |-> stepDelta, before |-> sched.accumulator,
                                ticks |-> 0, injected |-> sched.advanceMs,
                                called |-> hist.injectSum],
                     !.injectSum = 0,
                     !.elapsed = IF mode = "rate" THEN @ + stepDelta ELSE @]
        /\ timers' = [i \in 1..Len(timers) |-> timers[i] - delta]
    /\ pc' = "drain"
    /\ UNCHANGED <<actor, refs, input, game, progress, stars, diag, mode, arcade, controls>>

\* Arguments of window.advanceTime, in 1/3 ms: 16.67 ms, 40 ms, 200 ms
AdvanceAmounts == {50, 120, 600}

\* window.advanceTime(ms), Skater.tsx 169-172
AdvanceTime ==
    /\ pc = "idle" /\ Playing
    /\ hist.advances < MaxAdvances
    /\ \E ms \in AdvanceAmounts :
        /\ sched' = [sched EXCEPT !.advanceMs = @ + ms]
        /\ hist' = [hist EXCEPT !.advances = @ + 1, !.injectSum = @ + ms]
    /\ UNCHANGED <<actor, refs, input, pc, game, timers, progress, stars, diag, mode, arcade,
                   controls>>

\* A frame that runs exactly one tick, as on a steady 60 Hz display
\* (Skater.tsx 391-394, 406), from actor a and refs r
TickPerFrame(ar, in) ==
    LET w == StepPhysics(ar.a, in, ar.r)
    IN [a |-> ActorOf(w),
        r |-> [lastTrick |-> w.lastTrick, rampContact |-> w.onRamp, prevJump |-> in.jump]]

\* Skater.tsx 391-394: one iteration of the while loop
Tick ==
    /\ pc = "drain" /\ sched.accumulator >= FIXED_DT
    /\ LET w == StepPhysics(actor, input, refs)
           r == IF w.trickCb > 0 THEN HandleTrickPerformed(game, progress)
                ELSE [g |-> game, p |-> progress]
       IN /\ actor' = ActorOf(w)
          /\ refs' = [refs EXCEPT !.lastTrick = w.lastTrick, !.rampContact = w.onRamp]
          /\ game' = r.g
          /\ progress' = r.p
          /\ diag' = [w |-> w, pre |-> actor, in |-> input, prevJump |-> refs.prevJump,
                      rampContact |-> refs.rampContact, valid |-> TRUE]
          /\ hist' = [hist EXCEPT
                 !.ticks = @ + 1,
                 !.frame = [@ EXCEPT !.ticks = @ + 1],
                 !.ref = IF mode = "rate" THEN TickPerFrame(@, input) ELSE @,
                 !.regsBefore = IF mode = "tricks" THEN hist.regs ELSE @,
                 !.regs = IF mode # "tricks" THEN @
                          ELSE IF w.grounded THEN <<>>
                          ELSE IF w.trickCb > 0 THEN Append(@, w.trickCb - 1) ELSE @,
                 !.launches = IF actor.grounded /\ ~w.grounded THEN @ + 1 ELSE @,
                 !.registered = IF w.trickCb > 0 THEN @ + 1 ELSE @,
                 !.held = IF input.jump THEN @ + 1 ELSE 0,
                 !.airTricks = IF w.grounded THEN 0
                               ELSE IF w.trickCb > 0 THEN @ + 1 ELSE @]
    /\ sched' = [sched EXCEPT !.accumulator = @ - FIXED_DT]
    /\ UNCHANGED <<input, pc, timers, stars, mode, arcade, controls>>

\* MiniSkateGame 269-284 (the position copy feeds the stars' distance test)
HandleSkaterUpdate(g, grounded) == [g EXCEPT !.prevGrounded = grounded, !.dirty = TRUE]

\* Skater.tsx 396-419: the rest of the frame callback
FrameEnd ==
    /\ pc = "drain" /\ sched.accumulator < FIXED_DT
    /\ refs' = [refs EXCEPT !.prevJump = input.jump]
    /\ IF sched.sinceUpdate >= UPDATE_INTERVAL
       THEN /\ sched' = [sched EXCEPT !.sinceUpdate = 0]
            /\ game' = HandleSkaterUpdate(game, actor.grounded)
            /\ timers' = IF actor.grounded /\ ~game.prevGrounded
                         THEN Append(timers, COMBO_RESET_DELAY) ELSE timers
       ELSE UNCHANGED <<sched, game, timers>>
    /\ pc' = "idle"
    /\ UNCHANGED <<actor, input, progress, stars, diag, hist, mode, arcade, controls>>

\* MiniSkateGame 279-281: a due combo-reset timer runs between frames
TimerFire ==
    /\ pc = "idle"
    /\ timers # <<>> /\ Head(timers) <= 0
    /\ timers' = Tail(timers)
    /\ game' = [game EXCEPT !.comboCount = 0, !.dirty = TRUE]
    /\ UNCHANGED <<actor, refs, input, pc, sched, progress, stars, diag, hist, mode, arcade, controls>>

\* React re-renders MiniSkateGame: the callbacks close over the new values
\* (MiniSkateGame 251-334), the ref-sync effects run (238-245), and Stars
\* mounts a Star per visible star and unmounts the others (Stars 484-503)
Render ==
    /\ pc = "idle" /\ game.dirty
    /\ game' = [game EXCEPT !.closure = ClosureOf(game, progress),
                            !.comboCountRef = game.comboCount,
                            !.trickCountRef = progress.totalTricks,
                            !.bestComboRef = progress.bestCombo,
                            !.dirty = FALSE]
    /\ stars' = [id \in StarIds |->
                    IF game.phase = "menu" \/ ~Visible(game, progress, id) THEN "unmounted"
                    ELSE IF stars[id] = "unmounted" THEN "live" ELSE stars[id]]
    /\ UNCHANGED <<actor, refs, input, pc, sched, timers, progress, diag, hist, mode, arcade, controls>>

\* MiniSkateGame 323-334; the Skater mounted by the following render starts
\* from its initial refs (Skater.tsx 44-77)
HandleStart ==
    /\ pc = "idle" /\ game.phase = "menu" /\ ~game.dirty
    /\ hist.sessions < MaxSessions
    /\ game' = [game EXCEPT !.phase = "playing", !.trickCount = 0, !.comboCount = 0,
                            !.sessionStars = <<>>, !.dirty = TRUE]
    /\ progress' = [progress EXCEPT !.sessionsPlayed = game.closure.sessionsPlayed + 1]
    /\ actor' = SpawnState
    /\ refs' = InitRefs
    /\ sched' = InitSched
    /\ hist' = [hist EXCEPT !.sessions = @ + 1]
    /\ UNCHANGED <<input, pc, timers, stars, diag, mode, arcade, controls>>

\* MiniSkateGame 337-340
HandlePause ==
    /\ pc = "idle" /\ game.phase = "playing" /\ ~game.dirty
    /\ game' = [game EXCEPT !.phase = "paused", !.dirty = TRUE]
    /\ UNCHANGED <<actor, refs, input, pc, sched, timers, progress, stars, diag, hist, mode, arcade, controls>>

\* MiniSkateGame 342-345
HandleResume ==
    /\ pc = "idle" /\ game.phase = "paused" /\ ~game.dirty
    /\ game' = [game EXCEPT !.phase = "playing", !.dirty = TRUE]
    /\ UNCHANGED <<actor, refs, input, pc, sched, timers, progress, stars, diag, hist, mode, arcade, controls>>

\* MiniSkateGame 348-353
HandleExit ==
    /\ pc = "idle" /\ game.phase = "paused" /\ ~game.dirty
    /\ game' = [game EXCEPT !.phase = "menu", !.trickCount = 0, !.comboCount = 0,
                            !.dirty = TRUE]
    /\ UNCHANGED <<actor, refs, input, pc, sched, timers, progress, stars, diag, hist, mode, arcade, controls>>

\* What a call of the collection handler for id starts from
CallRecord(id) ==
    [id |-> id, had |-> id \in Range(progress.collectedStars),
     inSession |-> id \in Range(game.sessionStars),
     seen |-> id \in Range(game.closure.sessionStars) \cup Range(game.closure.collectedStars),
     before |-> progress]

\* Star useFrame (Stars 430-448) of a mounted star with the skater within
\* STAR_COLLECT_RADIUS; the skater position is an input of the component
StarFrame ==
    /\ pc = "idle" /\ Playing
    /\ \E id \in StarIds :
        /\ stars[id] = "live"
        /\ stars' = [stars EXCEPT ![id] = "done"]
        /\ LET r == HandleStarCollected(game, progress, id)
           IN /\ game' = r.g
              /\ progress' = r.p
              /\ hist' = [hist EXCEPT
                     !.collected = IF r.p # progress THEN @ \cup {id} ELSE @,
                     !.call = CallRecord(id)]
    /\ UNCHANGED <<actor, refs, input, pc, sched, timers, diag, mode, arcade, controls>>

\* The collection handler invoked directly for any star id (MiniSkateGame 287-310)
CollectCall ==
    /\ pc = "idle" /\ Playing
    /\ hist.calls < MaxCalls
    /\ \E id \in StarIds :
        LET r == HandleStarCollected(game, progress, id)
        IN /\ game' = r.g
           /\ progress' = r.p
           /\ hist' = [hist EXCEPT
                  !.calls = @ + 1,
                  !.collected = IF r.p # progress THEN @ \cup {id} ELSE @,
                  !.call = CallRecord(id)]
    /\ UNCHANGED <<actor, refs, input, pc, sched, timers, stars, diag, mode, arcade, controls>>

----------------------------------------------------------------------------
(* Actor states a behaviour starts from.  Besides the spawn state these     *)
(* are states of play next to the features of the level: each satisfies     *)
(* what a tick establishes (inside the park, speed <= MAX_SPEED, grounded   *)
(* with zero vertical velocity, no trick while grounded).                   *)

Grounded(x, y, z, vx, vz, rot) ==
    [a |-> [x |-> x, y |-> y, z |-> z, vx |-> vx, vz |-> vz, rot |-> rot,
            vv |-> 0, grounded |-> TRUE, trick |-> 0, air |-> 0],
     r |-> InitRefs]

Airborne(x, y, z, vx, vz, vv, trick, air) ==
    [a |-> [x |-> x, y |-> y, z |-> z, vx |-> vx, vz |-> vz, rot |-> 0,
            vv |-> vv, grounded |-> FALSE, trick |-> trick, air |-> air],
     r |-> [prevJump |-> FALSE, rampContact |-> FALSE, lastTrick |-> trick - 1]]

QUARTER == 942     \* a quarter turn: heading toward +x

OnRamp(s) == [s EXCEPT !.r.rampContact = TRUE]

FlatSeeds ==
    { Grounded(-4 * XZ, 0, -10 * XZ, 0, 0, 0),
      Grounded(-4 * XZ, 0, -10 * XZ, 0, 200, 0) }

PhysicsSeeds ==
    FlatSeeds \cup
    { [a |-> SpawnState, r |-> InitRefs],
      \* at the east edge of the park, moving outward
      Grounded(19 * XZ - 100, 0, 10 * XZ, 230, 0, QUARTER),
      \* about to enter the padded footprint of o5 (1 x 1) through its west face
      Grounded(14 * XZ - XZ \div 2 - PAD - 100, 0, 4 * XZ, 230, 0, QUARTER),
      \* the same, along the north edge of the padded footprint
      Grounded(14 * XZ - XZ \div 2 - PAD - 100, 0, 4 * XZ + XZ \div 2 + PAD, 230, 0, QUARTER),
      \* about to enter the padded footprint of o4 (2 x 1) through its south face
      Grounded(11 * XZ + 7200, 0, 4 * XZ - XZ \div 2 - PAD - 100, 0, 230, 0),
      \* standing on top of o5
      Grounded(14 * XZ, YU \div 2, 4 * XZ, 0, 0, 0),
      \* riding off the top of o6 (2 x 2) through its east face
      Grounded(8 * XZ + XZ + PAD - 100, (6 * YU) \div 10, 10 * XZ, 230, 0, QUARTER),
      \* riding up hp2 (east), half way
      OnRamp(Grounded(14 * XZ, RampHeight(XZ, 2 * XZ, 2 * YU), -6 * XZ, 200, 0, QUARTER)),
      \* falling onto the top of o5
      Airborne(14 * XZ, 150, 4 * XZ, 0, 0, -10, 0, 20),
      \* descending slowly onto the high end of hp1 (north), progress 1.0
      Airborne(8 * XZ, 2 * YU + 5, -13 * XZ, 0, 0, -1, 0, 30),
      \* about to land on flat ground with a registered trick
      Airborne(-4 * XZ, 30, -10 * XZ, 0, 100, -15, 1, 35),
      \* rising after a launch from flat ground
      Airborne(-4 * XZ, 20, -10 * XZ, 0, 100, 20, 0, 1) }

InitWith(m, seeds, accs) ==
    /\ mode = m
    /\ \E s \in seeds : actor = s.a /\ refs = s.r
    /\ input = NoInput
    /\ pc = "idle"
    /\ \E a \in accs : sched = [InitSched EXCEPT !.accumulator = a]
    /\ timers = <<>>
    /\ progress = InitSkateProgress
    /\ stars = NoStars
    /\ diag = NoDiag
    /\ hist = InitHist
    /\ arcade = ReadyArcade
    /\ controls = InitControls

PlayingGame == [InitGame("playing", InitSkateProgress) EXCEPT !.prevGrounded = actor.grounded]

InitPhysics ==
    \/ InitWith("physics", PhysicsSeeds, {0}) /\ game = PlayingGame
    \/ /\ InitWith("push", {Grounded(19 * XZ - 100, 0, 10 * XZ, 230, 0, QUARTER)}, {0})
       /\ game = PlayingGame

SpecPhysics == InitPhysics /\ [][SetInput \/ FrameBegin \/ Tick \/ FrameEnd]_vars

JumpHeld == In(FALSE, FALSE, FALSE, TRUE, FALSE, FALSE)

\* The jump key went down after the last frame callback and stays down
InitHold ==
    /\ mode = "hold"
    /\ \E s \in FlatSeeds : actor = s.a /\ refs = s.r
    /\ input = JumpHeld
    /\ pc = "idle"
    /\ \E a \in {0, 25} : sched = [InitSched EXCEPT !.accumulator = a]
    /\ timers = <<>>
    /\ progress = InitSkateProgress
    /\ game = PlayingGame
    /\ stars = NoStars
    /\ diag = NoDiag
    /\ hist = InitHist
    /\ arcade = ReadyArcade
    /\ controls = InitControls

SpecHold == InitHold /\ [][FrameBegin \/ Tick \/ FrameEnd \/ TimerFire]_vars

\* Frames of any length, stalls far beyond MAX_ACCUM included
InitFrames ==
    InitWith("frames", {Grounded(-4 * XZ, 0, -10 * XZ, 0, 0, 0)}, {0}) /\ game = PlayingGame

SpecFrames == InitFrames /\ [][SetInput \/ FrameBegin \/ Tick \/ FrameEnd]_vars

InitAdvance ==
    InitWith("advance", {Grounded(-4 * XZ, 0, -10 * XZ, 0, 0, 0)}, {0}) /\ game = PlayingGame

SpecAdvance == InitAdvance /\ [][AdvanceTime \/ FrameBegin \/ Tick \/ FrameEnd]_vars

\* Airborne periods: one under way after a launch from flat ground, and one
\* about to end on flat ground with trick 1 registered
TrickSeeds ==
    { Airborne(-4 * XZ, 20, -10 * XZ, 0, 100, 20, 0, 1),
      Airborne(-4 * XZ, 30, -10 * XZ, 0, 100, -15, 1, 35) }

InitTricks ==
    /\ mode = "tricks"
    /\ \E s \in TrickSeeds : actor = s.a /\ refs = s.r
    /\ input = NoInput
    /\ pc = "idle"
    /\ sched = InitSched
    /\ timers = <<>>
    /\ progress = InitSkateProgress
    /\ game = PlayingGame
    /\ stars = NoStars
    /\ diag = NoDiag
    /\ hist = [InitHist EXCEPT !.regs = IF actor.trick > 0 THEN <<actor.trick - 1>>
                                        ELSE <<>>]
    /\ arcade = ReadyArcade
    /\ controls = InitControls

SpecTricks == InitTricks /\ [][SetInput \/ FrameBegin \/ Tick \/ FrameEnd]_vars

\* Trick bookkeeping during an airborne period that began on flat ground:
\* frames register tricks, React re-renders between frames when it gets to
InitBook ==
    /\ InitWith("book", {Airborne(-4 * XZ, 20, -10 * XZ, 0, 100, 20, 0, 1)}, {0})
    /\ game = PlayingGame

SpecBook == InitBook /\ [][SetInput \/ FrameBegin \/ Tick \/ FrameEnd \/ Render]_vars

\* Airborne periods: after a launch from flat ground, after a boosted launch
\* from the top of hp1, above the top of o5, above the high end of hp1
AirSeeds ==
    { Airborne(-4 * XZ, 20, -10 * XZ, 0, 100, 20, 0, 1),
      Airborne(8 * XZ, 2 * YU + RAMP_LAUNCH, -13 * XZ, 0, 0, RAMP_LAUNCH, 0, 1),
      Airborne(14 * XZ, 150, 4 * XZ, 0, 0, -10, 0, 20),
      Airborne(8 * XZ, 2 * YU + 5, -13 * XZ, 0, 0, -1, 0, 30) }

InitAir == InitWith("air", AirSeeds, {0}) /\ game = PlayingGame

\* Skater.tsx 393-396: one turn of the while loop, seen on the accumulator
\* alone (the steps of Tick are exactly the steps of this action)
DrainStep ==
    /\ pc = "drain" /\ sched.accumulator >= FIXED_DT
    /\ sched' = [sched EXCEPT !.accumulator = @ - FIXED_DT]

\* The display keeps invoking the frame callback while the Skater is mounted,
\* and the callback runs its loop to the end
SpecAir ==
    InitAir /\ [][SetInput \/ FrameBegin \/ Tick \/ FrameEnd]_vars
        /\ WF_vars(FrameBegin) /\ WF_sched(DrainStep) /\ WF_vars(FrameEnd)

\* One InputSnapshot for the whole behaviour, frames of any length below MAX_ACCUM
ConstantInputs ==
    {NoInput, JumpHeld, In(TRUE, FALSE, FALSE, FALSE, FALSE, FALSE),
     In(TRUE, FALSE, TRUE, FALSE, FALSE, FALSE)}

InitRate ==
    /\ mode = "rate"
    /\ \E s \in FlatSeeds : actor = s.a /\ refs = s.r
    /\ input \in ConstantInputs
    /\ pc = "idle"
    /\ sched = InitSched
    /\ timers = <<>>
    /\ progress = InitSkateProgress
    /\ game = PlayingGame
    /\ stars = NoStars
    /\ diag = NoDiag
    /\ hist = [InitHist EXCEPT !.ref = [a |-> actor, r |-> refs]]
    /\ arcade = ReadyArcade
    /\ controls = InitControls

SpecRate == InitRate /\ [][FrameBegin \/ Tick \/ FrameEnd]_vars

\* In flight above flat ground with one trick registered and published as airborne
InitSession ==
    /\ mode = "session"
    /\ actor = Airborne(-4 * XZ, 30, -10 * XZ, 0, 100, -15, 1, 35).a
    /\ refs = Airborne(-4 * XZ, 30, -10 * XZ, 0, 100, -15, 1, 35).r
    /\ input = NoInput
    /\ pc = "idle"
    /\ \E u \in {0, 100} : sched = [InitSched EXCEPT !.sinceUpdate = u]
    /\ timers = <<>>
    /\ progress = [InitSkateProgress EXCEPT !.totalTricks = 1, !.bestCombo = 1]
    /\ game = [InitGame("playing", progress) EXCEPT
                  !.prevGrounded = FALSE, !.trickCount = 1, !.comboCount = 1,
                  !.comboCountRef = 1]
    /\ stars = NoStars
    /\ diag = NoDiag
    /\ hist = [InitHist EXCEPT !.airTricks = 1, !.registered = 1]
    /\ arcade = ReadyArcade
    /\ controls = InitControls

SpecSession ==
    InitSession /\
    [][SetInput \/ FrameBegin \/ Tick \/ FrameEnd \/ TimerFire \/ Render]_vars

----------------------------------------------------------------------------
(* Menu and star specifications *)

InitMenu(m) ==
    /\ mode = m
    /\ actor = SpawnState
    /\ refs = InitRefs
    /\ input = NoInput
    /\ pc = "idle"
    /\ sched = InitSched
    /\ timers = <<>>
    /\ progress = InitSkateProgress
    /\ game = InitGame("menu", InitSkateProgress)
    /\ stars = NoStars
    /\ diag = NoDiag
    /\ hist = InitHist
    /\ arcade = ReadyArcade
    /\ controls = InitControls

InitStars == InitMenu("stars")

SpecStars ==
    InitStars /\
    [][HandleStart \/ HandlePause \/ HandleResume \/ HandleExit \/ Render \/ StarFrame]_vars

InitPause == InitMenu("pause")

SpecPause ==
    InitPause /\
    [][HandleStart \/ HandlePause \/ HandleResume \/ HandleExit \/ Render \/ SetInput \/ FrameBegin \/ Tick \/ FrameEnd]_vars

\* Saved objects: any subset of the fields of a sub-object with saved values,
\* or the complete default
ObjectsOf(d, saved) ==
    {[k \in S |-> saved[k]] : S \in SUBSET DOMAIN d} \cup {d}

SubsOf(d, saved) == {<<>>} \cup {<<o>> : o \in ObjectsOf(d, saved)}

\* A complete state that differs from the defaults in every field
SavedState ==
    [top |-> [version |-> 2, activeGame |-> 2],
     playerProfile |-> [characterId |-> 5, playerName |-> 7],
     mathProgress |-> [currentLevel |-> 3],
     cityProgress |-> [daysPlayed |-> 4],
     skateProgress |-> [totalTricks |-> 9, favoriteCharacter |-> 0]]

SavedItems ==
    {[kind |-> "json",
      obj |-> [top |-> t, playerProfile |-> pp, mathProgress |-> mp, cityProgress |-> cp,
               skateProgress |-> sp]] :
        t \in ObjectsOf(initialState.top, SavedState.top),
        pp \in SubsOf(initialPlayerProfile, SavedState.playerProfile),
        mp \in SubsOf(initialMathProgress, SavedState.mathProgress),
        cp \in SubsOf(initialCityProgress, SavedState.cityProgress),
        sp \in SubsOf(initialSkateProgress, SavedState.skateProgress)}

ArcadeActions ==
    {[type |-> "SET_ACTIVE_GAME", payload |-> 2],
     [type |-> "UPDATE_SKATE_PROGRESS", payload |-> [totalTricks |-> 1]]}

InitStorage ==
    /\ mode = "storage"
    /\ actor = SpawnState
    /\ refs = InitRefs
    /\ input = NoInput
    /\ pc = "idle"
    /\ sched = InitSched
    /\ timers = <<>>
    /\ progress = InitSkateProgress
    /\ game = InitGame("menu", InitSkateProgress)
    /\ stars = NoStars
    /\ diag = NoDiag
    /\ hist = InitHist
    /\ controls = InitControls
    /\ \/ \E item \in SavedItems \cup {NoItem, CorruptItem, NullItem} :
             arcade = MountArcade(item, FALSE)
       \/ \E item \in {NoItem, Stringify(SavedState)} : arcade = MountArcade(item, TRUE)

\* The commit of the first render: the load effect, then the save effect
\* with the state of that render (ArcadeContext.tsx 205-235)
StartupEffects ==
    /\ arcade.stage = "mount"
    /\ \E ok \in BOOLEAN :
        LET r == LoadEffectOf(arcade.storage, arcade.readThrows)
            a == [arcade EXCEPT !.queue = r.queue, !.loadFailed = r.failed,
                                !.crashed = r.crashed]
        IN arcade' =
              IF r.crashed THEN [a EXCEPT !.stage = "crashed"]
              ELSE [SaveEffectOf(a, ok) EXCEPT
                       !.stage = IF r.queue = <<>> THEN "ready" ELSE "started",
                       !.op = [kind |-> "startup", before |-> arcade.state,
                               action |-> NoAction, ok |-> ok]]
    /\ UNCHANGED <<actor, refs, input, pc, sched, game, timers, progress, stars, diag, hist,
                   mode, controls>>

\* The queued LOAD_STATE is reduced, the provider renders again and the save
\* effect runs with the loaded state (ArcadeContext.tsx 173-174, 229-235)
LoadCommit ==
    /\ arcade.stage = "started"
    /\ \E ok \in BOOLEAN :
        LET act == [type |-> "LOAD_STATE", payload |-> Head(arcade.queue)]
            a == [arcade EXCEPT !.state = arcadeReducer(@, act), !.queue = Tail(@)]
        IN arcade' = [SaveEffectOf(a, ok) EXCEPT
                         !.stage = "ready",
                         !.op = [kind |-> "load", before |-> arcade.state,
                                 action |-> NoAction, ok |-> ok]]
    /\ UNCHANGED <<actor, refs, input, pc, sched, game, timers, progress, stars, diag, hist,
                   mode, controls>>

\* A reducer action from a game, the render and the save effect that follow
\* (ArcadeContext.tsx 107-179, 229-235)
Dispatch ==
    /\ arcade.stage = "ready" /\ arcade.updates < MaxUpdates
    /\ \E act \in ArcadeActions, ok \in BOOLEAN :
        LET a == [arcade EXCEPT !.state = arcadeReducer(@, act), !.updates = @ + 1]
        IN arcade' = [SaveEffectOf(a, ok) EXCEPT
                         !.op = [kind |-> "dispatch", before |-> arcade.state,
                                 action |-> act, ok |-> ok]]
    /\ UNCHANGED <<actor, refs, input, pc, sched, game, timers, progress, stars, diag, hist,
                   mode, controls>>

\* The page is loaded again: a new provider mounts with what storage holds.
\* prev remembers the state of the old page when storage held its text.
Reload ==
    /\ arcade.stage = "ready" /\ arcade.reloads < MaxReloads
    /\ arcade' = [MountArcade(arcade.storage, FALSE) EXCEPT
                      !.reloads = arcade.reloads + 1,
                      !.prev = IF arcade.storage = Stringify(arcade.state)
                               THEN <<arcade.state>> ELSE <<>>]
    /\ UNCHANGED <<actor, refs, input, pc, sched, game, timers, progress, stars, diag, hist,
                   mode, controls>>

SpecStorage == InitStorage /\ [][StartupEffects \/ LoadCommit \/ Dispatch \/ Reload]_vars

\* Joystick positions: the centre, the deadzone border and the first value
\* beyond it, on each side
AxisValues == {-DEADZONE - 1, -DEADZONE, 0, DEADZONE, DEADZONE + 1}

InitControlsSpec == InitMenu("controls")

\* setTouchButton (useSkateControls.ts 137-139) and the key handlers
\* (47-115) set one discrete flag; the hook renders and recomputes
\* combinedInput
SetTouchButton ==
    /\ \E button \in DOMAIN NoInput, pressed \in BOOLEAN :
        /\ controls.keys[button] # pressed
        /\ controls' = [controls EXCEPT !.keys[button] = pressed]
    /\ input' = CombinedInput(controls'.keys, controls'.touch)
    /\ UNCHANGED <<actor, refs, pc, sched, game, timers, progress, stars, diag, hist, mode,
                   arcade>>

\* updateJoystick (useSkateControls.ts 131-134), then the render
UpdateJoystick ==
    /\ \E x \in AxisValues, y \in AxisValues, active \in BOOLEAN :
        /\ controls' = [controls EXCEPT
                 !.touch = [joystickX |-> x, joystickY |-> y, isJoystickActive |-> active]]
        /\ controls' # controls
    /\ input' = CombinedInput(controls'.keys, controls'.touch)
    /\ UNCHANGED <<actor, refs, pc, sched, game, timers, progress, stars, diag, hist, mode,
                   arcade>>

SpecControls == InitControlsSpec /\ [][SetTouchButton \/ UpdateJoystick]_vars

\* e.key.toLowerCase() of the keys of the scenario: both keys of forward,
\* one key of three other flags, one key the hook does not bind
Keys == {"w", "arrowup", "s", " ", "1", "x"}

\* Touch buttons of the scenario
Buttons == {"forward", "jump"}

\* useSkateControls.ts 56-81 and 91-116: the flag a key is bound to
FlagOf(key) ==
    CASE key \in {"w", "arrowup"} -> "forward"
      [] key \in {"s", "arrowdown"} -> "backward"
      [] key \in {"a", "arrowleft"} -> "turnLeft"
      [] key \in {"d", "arrowright"} -> "turnRight"
      [] key = " " -> "jump"
      [] key = "1" -> "trick1"
      [] key = "2" -> "trick2"
      [] key = "3" -> "trick3"
      [] key = "4" -> "trick4"
      [] OTHER -> "none"

\* useSkateControls.ts 55-82 and 90-117: the setInput updater of a key event
SetFlag(keys, key, value) ==
    IF FlagOf(key) = "none" THEN keys ELSE [keys EXCEPT ![FlagOf(key)] = value]

InitKeys == InitMenu("keys")

\* handleKeyDown (useSkateControls.ts 49-83), a key going down or repeating
HandleKeyDown ==
    /\ \E key \in Keys :
        /\ key \notin controls.pressed
        /\ controls' = [controls EXCEPT !.pressed = @ \cup {key},
                                        !.keys = SetFlag(@, key, TRUE)]
    /\ input' = CombinedInput(controls'.keys, controls'.touch)
    /\ UNCHANGED <<actor, refs, pc, sched, game, timers, progress, stars, diag, hist, mode,
                   arcade>>

\* handleKeyUp (useSkateControls.ts 85-118), a held key going up
HandleKeyUp ==
    /\ \E key \in controls.pressed :
        controls' = [controls EXCEPT !.pressed = @ \ {key},
                                     !.keys = SetFlag(@, key, FALSE)]
    /\ input' = CombinedInput(controls'.keys, controls'.touch)
    /\ UNCHANGED <<actor, refs, pc, sched, game, timers, progress, stars, diag, hist, mode,
                   arcade>>

\* setTouchButton (useSkateControls.ts 137-139), a finger going down on a
\* touch button or leaving it
TouchButton ==
    /\ \E button \in Buttons :
        LET down == button \notin controls.fingers
        IN controls' = [controls EXCEPT
                 !.fingers = IF down THEN @ \cup {button} ELSE @ \ {button},
                 !.keys[button] = down]
    /\ input' = CombinedInput(controls'.keys, controls'.touch)
    /\ UNCHANGED <<actor, refs, pc, sched, game, timers, progress, stars, diag, hist, mode,
                   arcade>>

SpecKeys == InitKeys /\ [][HandleKeyDown \/ HandleKeyUp \/ TouchButton]_vars

InitCalls == InitMenu("calls")

SpecCalls == InitCalls /\ [][HandleStart \/ HandlePause \/ HandleExit \/ Render \/ CollectCall]_vars

----------------------------------------------------------------------------
(* Properties *)

Speed2(vx, vz) == vx * vx + vz * vz

\* C1: when jump has been held over HoldTicks consecutive ticks that began
\* grounded on flat ground, exactly one grounded -> airborne transition has
\* happened, however the ticks were grouped into frames.
C1_OneLaunchPerHold == hist.held = HoldTicks => hist.launches = 1

\* C2: after every tick that ends grounded, the vertical velocity is 0.
C2_GroundedAtRest == diag.valid => (actor.grounded => actor.vv = 0)

\* a tick that began in the air and ended on the top of an obstacle
C2_LandedOnTop ==
    /\ diag.valid /\ ~diag.pre.grounded /\ diag.pre.vv < 0
    /\ diag.w.topHit # "none" /\ actor.grounded

\* C3: after every tick both horizontal coordinates lie within the park
\* bound, also after forward has been held toward the edge for PushTicks ticks.
C3_InsidePark ==
    diag.valid => Abs(actor.x) <= BOUND_SIZE /\ Abs(actor.z) <= BOUND_SIZE

\* the last of PushTicks forward ticks integrated past the east edge and was clamped
C3_ClampedAtEdge ==
    /\ diag.valid /\ mode = "push" /\ hist.ticks = PushTicks
    /\ diag.in.forward /\ diag.w.ix > BOUND_SIZE /\ actor.x = BOUND_SIZE

\* C4: after every tick the horizontal speed is at most MAX_SPEED, including
\* ticks in which a side bounce rewrote a velocity component after the clamp.
C4_SpeedLimit == diag.valid => Speed2(actor.vx, actor.vz) <= MAX_SPEED * MAX_SPEED

\* a tick with forward held in which a side bounce rewrote a moving x component
C4_BouncedTick ==
    /\ diag.valid /\ diag.in.forward /\ diag.w.sideAxis = "x"
    /\ diag.w.ivx # 0 /\ actor.vx = -TruncDiv(diag.w.ivx * RESTITUTION, 10)

hp1 == RAMP_DATA[1]

\* the integrated position is in the footprint of hp1 at progress 1.0, at or
\* below the ramp height plus tolerance, rising no faster than 0.2 m/s
AtTopOfHp1(w) ==
    /\ InRampFootprint(hp1, w.ix, w.iz)
    /\ RampProgressNum(hp1, w.ix, w.iz) = RampProgressDen(hp1)
    /\ w.iy <= hp1.maxHeight + RAMP_TOL /\ SlowRise(w.ivv)

\* the tick began grounded on hp1 at full height with ramp contact recorded
\* and read a rising edge of jump
JumpFromHp1 ==
    /\ diag.valid /\ diag.pre.grounded /\ diag.rampContact
    /\ InRampFootprint(hp1, diag.pre.x, diag.pre.z) /\ diag.pre.y = hp1.maxHeight
    /\ diag.in.jump /\ ~diag.prevJump

\* C5: a tick that integrates to progress 1.0 of the north ramp hp1
\* (maxHeight 2) at or below its height plus tolerance and rising no faster
\* than 0.2 m/s ends at y = 2.0, vertical velocity 0, grounded, with ramp
\* contact recorded; a jump rising edge on a tick that begins there ends with
\* vertical velocity RAMP_LAUNCH, which is greater than JUMP_FORCE.
C5_RampBoost ==
    /\ diag.valid /\ AtTopOfHp1(diag.w) =>
          /\ actor.y = 2 * YU /\ actor.vv = 0 /\ actor.grounded
          /\ refs.rampContact
    /\ JumpFromHp1 =>
          /\ actor.vv = RAMP_LAUNCH /\ ~actor.grounded
          /\ RAMP_LAUNCH > JUMP_FORCE

\* the second tick of a behaviour that descended onto the top of hp1 in its
\* first tick launches with the boost
C5_SnapThenJump ==
    /\ JumpFromHp1 /\ hist.ticks = 2
    /\ actor.vv = RAMP_LAUNCH

\* the tick moved along x from outside the padded footprint of o to a
\* position inside it, below the top band of o
EntersAlongX(o) ==
    /\ diag.valid
    /\ diag.w.ivx # 0 /\ diag.w.ivz = 0
    /\ ~InPaddedFootprint(o, diag.pre.x, diag.pre.z)
    /\ InPaddedFootprint(o, diag.w.ix, diag.w.iz)
    /\ diag.w.iy < o.sy - TOP_BELOW

Obstacles == Range(OBSTACLE_DATA)

\* C6 as stated: a tick that enters a padded footprint along x below the top
\* band ends outside that footprint, with velocity.x inverted and multiplied
\* by 0.3 and velocity.z and position.z as integrated.
C6_PushedOutside ==
    \A o \in Obstacles : EntersAlongX(o) =>
        /\ ~InPaddedFootprint(o, actor.x, actor.z)
        /\ actor.vx = -TruncDiv(diag.w.ivx * RESTITUTION, 10)
        /\ actor.vz = diag.w.ivz /\ actor.z = diag.w.iz

\* C6: a tick that enters a padded footprint along x below the top band, at
\* a point farther from the obstacle's centre in x than in z, ends with x
\* exactly on the padded bound of the face it came through (a point the
\* inclusive containment test still matches), velocity.x inverted and
\* multiplied by 0.3, and velocity.z and position.z as integrated.
C6_PushedToBound ==
    \A o \in Obstacles :
        EntersAlongX(o) /\ Abs(diag.w.ix - o.x) > Abs(diag.w.iz - o.z) =>
            /\ actor.x = o.x + Sign(diag.w.ix - o.x) * (o.sx \div 2 + PAD)
            /\ InPaddedFootprint(o, actor.x, actor.z)
            /\ actor.vx = -TruncDiv(diag.w.ivx * RESTITUTION, 10)
            /\ Sign(actor.vx) = -Sign(diag.w.ivx)
            /\ actor.vz = diag.w.ivz /\ actor.z = diag.w.iz

\* the tick entered the padded footprint of o5 through its west face
C6_EnteredWestFace ==
    /\ EntersAlongX(OBSTACLE_DATA[5]) /\ diag.w.sideAxis = "x"
    /\ diag.w.ix < OBSTACLE_DATA[5].x /\ diag.w.ivx > 0

\* C8: during play the combo counter is not reset to 0 while the actor is
\* airborne in the period in which tricks of the combo were registered.
C8_NoResetInFlight ==
    [][(game.comboCount > 0 /\ game'.comboCount = 0 /\ game'.phase = "playing")
          => ~(~actor.grounded /\ hist.airTricks > 0)]_vars

RECURSIVE SumPoints(_)
SumPoints(q) == IF q = <<>> THEN 0 ELSE StarPoints(Head(q)) + SumPoints(Tail(q))

NoDup(q) == \A i, j \in 1..Len(q) : q[i] = q[j] => i = j

SameStars(p, q) ==
    p.collectedStars = q.collectedStars /\ p.totalStarPoints = q.totalStarPoints

\* C9: every star whose collection the handler accepted is in the persisted
\* collectedStars from then on, and totalStarPoints counts each once.
C9_CollectedStaysPersisted ==
    /\ hist.collected \subseteq Range(progress.collectedStars)
    /\ progress.totalStarPoints = SumPoints(progress.collectedStars)

C11_BoundedDrain ==
    /\ 0 <= sched.accumulator /\ sched.accumulator <= MAX_ACCUM
    /\ hist.frame.ticks <= MAX_ACCUM \div FIXED_DT
    /\ pc = "idle" =>
          /\ sched.accumulator < FIXED_DT
          /\ hist.frame.ticks * FIXED_DT + sched.accumulator
                = Min(hist.frame.before + hist.frame.delta, MAX_ACCUM)

\* a frame that followed a stall longer than MAX_ACCUM has run its six ticks
C11_StallDrained ==
    /\ pc = "idle" /\ hist.frame.delta > MAX_ACCUM
    /\ hist.frame.ticks = MAX_ACCUM \div FIXED_DT /\ sched.accumulator = 0

\* C12: under a constant InputSnapshot and frame deltas below MAX_ACCUM,
\* the ActorState after n ticks is the one a schedule of one tick per frame
\* reaches after n ticks, and after every frame the number of ticks run is
\* the total elapsed time in whole steps of FIXED_DT.
C12_FrameRateIndependent ==
    /\ actor = hist.ref.a
    /\ pc = "idle" => hist.ticks = hist.elapsed \div FIXED_DT

\* C13: while the phase stays 'paused' (between handlePause and
\* handleResume) or stays 'menu', no stepPhysics tick executes and the
\* ActorState is unchanged.
C13_FrozenWhilePaused ==
    [][(game.phase \in {"paused", "menu"} /\ game'.phase = game.phase)
          => (hist'.ticks = hist.ticks /\ actor' = actor)]_vars

RestsOnSurface(a) ==
    \/ a.y = 0
    \/ \E i \in 1..Len(RAMP_DATA) :
          LET r == RAMP_DATA[i]
          IN /\ InRampFootprint(r, a.x, a.z)
             /\ a.y = RampHeight(RampProgressNum(r, a.x, a.z), RampProgressDen(r),
                                 r.maxHeight)
    \/ \E o \in Obstacles : InPaddedFootprint(o, a.x, a.z) /\ a.y = o.sy

\* C15: at the end of a tick isGrounded is true only when the actor rests
\* on the floor, a ramp surface or an obstacle top, also after it has ridden
\* horizontally off an obstacle top or off the high end of a ramp.
C15_GroundedOnlyOnSurface ==
    (diag.valid /\ actor.grounded) => RestsOnSurface(actor)

\* the object o over the defaults d: every field of d, with the value o
\* holds for it when o has the field
Filled(d, o) == [k \in DOMAIN d |-> IF k \in DOMAIN o THEN o[k] ELSE d[k]]

C17_StorageFailuresNonFatal ==
    /\ ~arcade.crashed
    /\ (arcade.loadFailed /\ arcade.updates = 0) => arcade.state = initialState
    /\ arcade.op.kind = "startup" => arcade.state = arcade.op.before
    /\ (arcade.op.kind = "dispatch" /\ arcade.op.action.type = "SET_ACTIVE_GAME") =>
          /\ arcade.state.top.activeGame = arcade.op.action.payload
          /\ arcade.state.top.version = arcade.op.before.top.version
          /\ \A f \in {"playerProfile", "mathProgress", "cityProgress", "skateProgress"} :
                arcade.state[f] = arcade.op.before[f]
    /\ (arcade.op.kind = "dispatch" /\ arcade.op.action.type = "UPDATE_SKATE_PROGRESS") =>
          /\ arcade.state.skateProgress.totalTricks = arcade.op.action.payload.totalTricks
          /\ arcade.state.skateProgress.favoriteCharacter
                = arcade.op.before.skateProgress.favoriteCharacter
          /\ \A f \in {"top", "playerProfile", "mathProgress", "cityProgress"} :
                arcade.state[f] = arcade.op.before[f]

\* the stored text was no JSON, the write of the first save effect failed,
\* and SET_ACTIVE_GAME was applied while its write failed as well
C17_DispatchAfterFailures ==
    /\ arcade.loadFailed /\ arcade.storage.kind = "corrupt"
    /\ arcade.op.kind = "dispatch" /\ ~arcade.op.ok /\ arcade.writeFailures = 2
    /\ arcade.state.top.activeGame = 2

\* C18: each combined directional flag is the discrete flag or the joystick
\* axis strictly beyond the 0.3 deadzone in that direction; an axis value
\* with |value| <= 0.3 contributes nothing; jump and trick1..trick4 are the
\* discrete flags whatever the joystick does.
C18_DeadzoneStrict ==
    LET k == controls.keys
        t == controls.touch
    IN /\ input.forward = (k.forward \/ t.joystickY < -DEADZONE)
       /\ input.backward = (k.backward \/ t.joystickY > DEADZONE)
       /\ input.turnLeft = (k.turnLeft \/ t.joystickX < -DEADZONE)
       /\ input.turnRight = (k.turnRight \/ t.joystickX > DEADZONE)
       /\ Abs(t.joystickY) <= DEADZONE =>
             (input.forward = k.forward /\ input.backward = k.backward)
       /\ Abs(t.joystickX) <= DEADZONE =>
             (input.turnLeft = k.turnLeft /\ input.turnRight = k.turnRight)
       /\ \A f \in {"jump", "trick1", "trick2", "trick3", "trick4"} : input[f] = k[f]

\* the joystick rests on the deadzone border along Y and just beyond it
\* along X while the jump button is held
C18_OnBorderAndBeyond ==
    /\ controls.touch.joystickY = -DEADZONE /\ controls.touch.joystickX = DEADZONE + 1
    /\ controls.touch.isJoystickActive
    /\ controls.keys = [NoInput EXCEPT !.jump = TRUE]
    /\ input = [NoInput EXCEPT !.jump = TRUE, !.turnRight = TRUE]

\* C19: a tick that starts grounded and reads jump held while the previous
\* tick read it released launches: it ends with isGrounded false and a
\* vertical velocity of RAMP_LAUNCH if the previous tick ended in ramp
\* contact and of JUMP_FORCE otherwise, wherever the actor stands and
\* however ticks are grouped into frames.
C19_RisingEdgeLaunches ==
    (diag.valid /\ diag.pre.grounded /\ diag.in.jump /\ hist.held = 1) =>
        /\ ~actor.grounded
        /\ actor.vv = (IF diag.rampContact THEN RAMP_LAUNCH ELSE JUMP_FORCE)

\* the indices of the trick flags pressed in the last tick
PressedTricks ==
    (IF diag.in.trick1 THEN {0} ELSE {}) \cup (IF diag.in.trick2 THEN {1} ELSE {})
        \cup (IF diag.in.trick3 THEN {2} ELSE {}) \cup (IF diag.in.trick4 THEN {3} ELSE {})

LowestPressed == CHOOSE m \in PressedTricks : \A n \in PressedTricks : m <= n

\* C20 as stated: a trick that registers in a tick has not registered
\* before in the same airborne period.
C20_NeverTwiceInOnePeriod ==
    (diag.valid /\ diag.w.trickCb > 0) => (diag.w.trickCb - 1) \notin Range(hist.regsBefore)

\* C20: no trick registers in a tick that starts grounded; in a tick that
\* starts airborne a trick registers, once, if and only if a trick flag is
\* pressed and the lowest pressed index differs from the index registered
\* last in the current airborne period, and the trick registered is that
\* lowest index; so a trick never registers twice in a row in one airborne
\* period.
C20_RegistersIffDiffersFromLast ==
    diag.valid =>
        LET last == IF hist.regsBefore = <<>> THEN -1
                    ELSE hist.regsBefore[Len(hist.regsBefore)]
        IN /\ diag.pre.grounded => diag.w.trickCb = 0
           /\ ~diag.pre.grounded =>
                 /\ diag.w.trickCb > 0 <=> (PressedTricks # {} /\ LowestPressed # last)
                 /\ diag.w.trickCb > 0 =>
                       /\ diag.w.trickCb - 1 = LowestPressed
                       /\ diag.w.trickCb - 1 # last
                       /\ ~actor.grounded => actor.trick = LowestPressed + 1

\* trick 1 registers a second time in an airborne period, after trick 2
C20_RegisteredAgainAfterOther ==
    /\ diag.valid /\ ~diag.pre.grounded /\ ~actor.grounded
    /\ hist.regsBefore = <<0, 1>> /\ diag.w.trickCb = 1 /\ actor.trick = 1

\* C21: a tick that ends grounded ends with currentTrick null and
\* airborneTime 0; a tick that starts airborne and ends grounded leaves the
\* last-registered trick index at -1; a tick that ends airborne has raised
\* airborneTime by one FIXED_DT.
C21_LandingClearsTrick ==
    diag.valid =>
        /\ actor.grounded => (actor.trick = 0 /\ actor.air = 0)
        /\ (~diag.pre.grounded /\ actor.grounded) => refs.lastTrick = -1
        /\ ~actor.grounded => actor.air = diag.pre.air + 1

\* trick 1, registered in the airborne period that ended, registers again
\* as the first trick of the period that follows the next launch
C21_SameTrickNextPeriod ==
    /\ diag.valid /\ hist.launches >= 1 /\ ~actor.grounded
    /\ hist.regsBefore = <<>> /\ diag.w.trickCb = 1 /\ actor.trick = 1
    /\ actor.air = diag.pre.air + 1

\* the obstacle whose side the last tick collided with
SideObstacle == CHOOSE o \in Obstacles : o.id = diag.w.sideHit

\* the last tick collided with the side of exactly one obstacle, at the
\* integrated position
SideCollision ==
    /\ diag.valid /\ diag.w.sideHit # "none"
    /\ \A o \in Obstacles : InPaddedFootprint(o, diag.w.ix, diag.w.iz) => o = SideObstacle

\* depth of the integrated position inside the padded box, along x and along z
PenetrationX(o) == o.sx \div 2 + PAD - Abs(diag.w.ix - o.x)
PenetrationZ(o) == o.sz \div 2 + PAD - Abs(diag.w.iz - o.z)

C23_AchievementsRecorded ==
    /\ Len(progress.collectedStars) >= 1 => "first_star" \in Range(progress.achievements)
    /\ progress.totalTricks >= 100 => "tricks_100" \in Range(progress.achievements)
    /\ progress.sessionsPlayed >= 5 => "sessions_5" \in Range(progress.achievements)
    /\ NoDup(progress.achievements)

\* C24: the amounts of the advanceTime calls made before a frame add up;
\* the frame consumes the pending total once, leaving 0 pending; and the
\* frame runs the whole fixed ticks of the accumulator plus the injected
\* time.
C24_InjectedTimeRuns ==
    /\ pc = "drain" => sched.advanceMs = 0
    /\ hist.frame.injected = hist.frame.called
    /\ (pc = "idle" /\ hist.frame.injected > 0) =>
          hist.frame.ticks = (hist.frame.before + hist.frame.injected) \div FIXED_DT

\* C25: a tick that starts grounded and reads no rising edge of jump ends
\* grounded with vertical velocity 0, its integration leaves position.y as
\* it was, and without a ramp or obstacle-top snap the tick ends at that
\* height; so isGrounded turns false only in a tick that launches.
C25_GroundedUntilLaunch ==
    diag.valid =>
        /\ (diag.pre.grounded /\ ~(diag.in.jump /\ ~diag.prevJump)) =>
              /\ actor.grounded /\ actor.vv = 0
              /\ diag.w.iy = diag.pre.y
              /\ (diag.w.rampHit = "none" /\ diag.w.topHit = "none") => actor.y = diag.pre.y
        /\ (diag.pre.grounded /\ ~actor.grounded) => diag.w.launched

\* a tick without a launch carried the grounded actor from the top of o6 to
\* a position above the floor outside every footprint, still grounded
C25_GroundedPastTheEdge ==
    /\ diag.valid /\ diag.pre.grounded /\ ~diag.w.launched
    /\ InPaddedFootprint(OBSTACLE_DATA[6], diag.pre.x, diag.pre.z)
    /\ ~InPaddedFootprint(OBSTACLE_DATA[6], actor.x, actor.z)
    /\ actor.grounded /\ actor.vv = 0 /\ actor.y = OBSTACLE_DATA[6].sy

\* C26: every airborne period ends: from a state with isGrounded false,
\* repeated ticks reach a state with isGrounded true, whatever the inputs.
C26_AirbornePeriodEnds == (~actor.grounded) ~> actor.grounded

\* the floor fallback ended an airborne period that lasted more than half
\* a second
C26_LandedOnFloor ==
    /\ diag.valid /\ ~diag.pre.grounded /\ actor.grounded
    /\ diag.w.floorSnap /\ diag.pre.air >= 30

\* C27: each discrete input flag is true exactly when one of its sources is
\* held: a key bound to it or its touch button.
C27_FlagIffSourceHeld ==
    \A flag \in DOMAIN NoInput :
        controls.keys[flag] <=>
            \/ \E key \in controls.pressed : FlagOf(key) = flag
            \/ flag \in controls.fingers

\* C28: trick bookkeeping loses no update: the persisted totalTricks has
\* grown by the number of onTrickPerformed calls, bestCombo never decreases,
\* and bestCombo >= the current comboCount.
C28_NoLostTrickUpdate ==
    /\ [](progress.totalTricks = hist.registered)
    /\ [](progress.bestCombo >= game.comboCount)
    /\ [][progress'.bestCombo >= progress.bestCombo]_vars

RampOf(id) == CHOOSE r \in Range(RAMP_DATA) : r.id = id

\* Corners, edge midpoints and centre of a ramp footprint
FootprintSamples(r) ==
    {<<x, z>> : x \in {r.x - r.sx \div 2, r.x, r.x + r.sx \div 2},
                z \in {r.z - r.sz \div 2, r.z, r.z + r.sz \div 2}}

\* C29: position.y >= 0 at the end of every tick: a ramp snap yields a height
\* in [0, maxHeight] (progress lies in [0, 1] inside the footprint, for each
\* of the four directions), an obstacle snap yields the positive top height,
\* and the floor fallback yields 0.
C29_HeightNeverNegative ==
    /\ diag.valid =>
          /\ actor.y >= 0
          /\ diag.w.rampHit # "none" =>
                (diag.w.topHit = "none" =>
                    actor.y \in 0..RampOf(diag.w.rampHit).maxHeight)
          /\ diag.w.topHit # "none" => actor.y > 0
          /\ diag.w.floorSnap => actor.y = 0
          /\ \A r \in Range(RAMP_DATA) :
                InRampFootprint(r, diag.w.ix, diag.w.iz) =>
                    RampProgressNum(r, diag.w.ix, diag.w.iz) \in 0..RampProgressDen(r)
    /\ \A r \in Range(RAMP_DATA) : \A q \in FootprintSamples(r) :
          /\ InRampFootprint(r, q[1], q[2])
          /\ RampProgressNum(r, q[1], q[2]) \in 0..RampProgressDen(r)
          /\ RampHeight(RampProgressNum(r, q[1], q[2]), RampProgressDen(r), r.maxHeight)
                \in 0..r.maxHeight

\* a descending actor that the tick carried below ground level was snapped
\* to height 0
C29_SnappedFromBelow ==
    /\ diag.valid /\ diag.w.floorSnap /\ diag.w.iy < 0
    /\ ~diag.pre.grounded /\ actor.y = 0 /\ actor.grounded

\* C30: the spawn state lies outside every ramp footprint and every padded
\* obstacle footprint, so a tick with no input from it fires no collision
\* branch and leaves position, velocity and isGrounded unchanged; and a side
\* push-out always moves the actor to the padded boundary (its direction
\* sign is never 0).
C30_SpawnClearPushMoves ==
    /\ \A r \in Range(RAMP_DATA) : ~InRampFootprint(r, SpawnState.x, SpawnState.z)
    /\ \A o \in Obstacles : ~InPaddedFootprint(o, SpawnState.x, SpawnState.z)
    /\ (diag.valid /\ diag.pre = SpawnState /\ diag.in = NoInput) =>
          /\ diag.w.rampHit = "none" /\ diag.w.topHit = "none" /\ diag.w.sideHit = "none"
          /\ ~diag.w.floorSnap
          /\ actor = SpawnState
    /\ SideCollision =>
          /\ diag.w.sideAxis = "x" =>
                /\ Sign(diag.w.ix - SideObstacle.x) # 0
                /\ Abs(diag.w.x - SideObstacle.x) = SideObstacle.sx \div 2 + PAD
          /\ diag.w.sideAxis = "z" =>
                /\ Sign(diag.w.iz - SideObstacle.z) # 0
                /\ Abs(diag.w.z - SideObstacle.z) = SideObstacle.sz \div 2 + PAD

====
